---- MODULE Spec2Model ----
(***************************************************************************)
(* State-machine model of vcfscan (src/src/main.rs): the File Catalog, the *)
(* record decoder, the filter engine and the tab/modal key handlers.       *)
(*                                                                         *)
(* Rust Strings are sequences of one-character strings.  Option<T> is a    *)
(* sequence of length at most one: <<>> is None and <<x>> is Some(x).      *)
(***************************************************************************)
EXTENDS Integers, Sequences, FiniteSets

\* --------------------------------------------------------------- bounds
\* Most characters the text fields of the state hold together (the file-name
\* filter, the modal buffer and the four criteria): once they hold that
\* many, no further character key is modelled.
MaxText == 3

\* ------------------------------------------------------ Option<T> helpers
None == <<>>
Some(x) == <<x>>
is_some(o) == Len(o) = 1
unwrap(o) == o[1]

\* ---------------------------------------------------------- String helpers
TAB == "\t"
IsWhitespace(c) == c \in {" ", TAB}

UpperChars == <<"A","B","C","D","E","F","G","H","I","J","K","L","M",
                "N","O","P","Q","R","S","T","U","V","W","X","Y","Z">>
LowerChars == <<"a","b","c","d","e","f","g","h","i","j","k","l","m",
                "n","o","p","q","r","s","t","u","v","w","x","y","z">>

\* char::to_lowercase on the ASCII range
to_lowercase_char(c) ==
  IF \E i \in 1..Len(UpperChars) : UpperChars[i] = c
  THEN LowerChars[CHOOSE i \in 1..Len(UpperChars) : UpperChars[i] = c]
  ELSE c

\* str::to_lowercase
to_lowercase(s) == [i \in 1..Len(s) |-> to_lowercase_char(s[i])]

\* str::contains(&str): t occurs in s as a contiguous substring
contains(s, t) ==
  \E i \in 0..(Len(s) - Len(t)) : SubSeq(s, i + 1, i + Len(t)) = t

\* str::starts_with(char)
starts_with(s, c) == Len(s) > 0 /\ s[1] = c

\* String::pop: drops the last character, nothing on the empty string
pop(s) == IF Len(s) = 0 THEN s ELSE SubSeq(s, 1, Len(s) - 1)

\* String::push
push(s, c) == Append(s, c)

RECURSIVE trim_start(_)
trim_start(s) ==
  IF Len(s) > 0 /\ IsWhitespace(s[1]) THEN trim_start(Tail(s)) ELSE s

RECURSIVE trim_end(_)
trim_end(s) ==
  IF Len(s) > 0 /\ IsWhitespace(s[Len(s)]) THEN trim_end(pop(s)) ELSE s

\* str::trim
trim(s) == trim_end(trim_start(s))

\* str::split(char): the fields between the separators, at least one field
RECURSIVE split(_, _)
split(s, sep) ==
  IF \E i \in 1..Len(s) : s[i] = sep
  THEN LET i == CHOOSE k \in 1..Len(s) :
                  s[k] = sep /\ \A j \in 1..(k - 1) : s[j] # sep
       IN <<SubSeq(s, 1, i - 1)>> \o split(SubSeq(s, i + 1, Len(s)), sep)
  ELSE <<s>>

\* str::split_once(char): None without a separator, else the text before
\* and after the first one
split_once(s, sep) ==
  IF \E i \in 1..Len(s) : s[i] = sep
  THEN LET i == CHOOSE k \in 1..Len(s) :
                  s[k] = sep /\ \A j \in 1..(k - 1) : s[j] # sep
       IN Some(<<SubSeq(s, 1, i - 1), SubSeq(s, i + 1, Len(s))>>)
  ELSE None

Digits == <<"0","1","2","3","4","5","6","7","8","9">>
IsDigit(c) == \E i \in 1..10 : Digits[i] = c
DigitVal(c) == (CHOOSE i \in 1..10 : Digits[i] = c) - 1

RECURSIVE digits_value(_)
digits_value(s) ==
  IF Len(s) = 0 THEN 0 ELSE 10 * digits_value(pop(s)) + DigitVal(s[Len(s)])

\* Longest digit string whose value the model computes; str::parse::<u64>
\* only overflows beyond 19 digits, which no modelled text reaches.
MaxDigits == 9

\* str::parse::<u64>: an optional '+', then one or more decimal digits
parse_u64(s) ==
  LET body == IF starts_with(s, "+") THEN Tail(s) ELSE s
  IN IF /\ Len(body) > 0
        /\ Len(body) <= MaxDigits
        /\ \A i \in 1..Len(body) : IsDigit(body[i])
     THEN Some(digits_value(body))
     ELSE None

\* u64::to_string: canonical decimal text
RECURSIVE to_string(_)
to_string(n) ==
  IF n < 10 THEN <<Digits[n + 1]>>
  ELSE Append(to_string(n \div 10), Digits[(n % 10) + 1])

\* ------------------------------------------------------------- PosRange
PosRange_None == [tag |-> "None", start |-> 0, end |-> 0]
PosRange_Exact(p) == [tag |-> "Exact", start |-> p, end |-> p]
PosRange_Range(a, b) == [tag |-> "Range", start |-> a, end |-> b]

\* Variant of parse_pos_range that accepts a range whose start exceeds its end.
parse_pos_range_unordered(input) ==
  LET s == trim(input)
      whole == parse_u64(s)
      halves == split_once(s, "-")
  IN IF Len(s) = 0 THEN PosRange_None
     ELSE IF is_some(whole) THEN PosRange_Exact(unwrap(whole))
     ELSE IF is_some(halves)
          THEN LET start == parse_u64(trim(unwrap(halves)[1]))
                   end == parse_u64(trim(unwrap(halves)[2]))
               IN IF is_some(start) /\ is_some(end)
                  THEN PosRange_Range(unwrap(start), unwrap(end))
                  ELSE PosRange_None
          ELSE PosRange_None

parse_pos_range(input) ==
  LET s == trim(input)
      whole == parse_u64(s)
      halves == split_once(s, "-")
  IN IF Len(s) = 0 THEN PosRange_None
     ELSE IF is_some(whole) THEN PosRange_Exact(unwrap(whole))
     ELSE IF is_some(halves)
          THEN LET start == parse_u64(trim(unwrap(halves)[1]))
                   end == parse_u64(trim(unwrap(halves)[2]))
               IN IF is_some(start) /\ is_some(end) /\ unwrap(start) <= unwrap(end)
                  THEN PosRange_Range(unwrap(start), unwrap(end))
                  ELSE PosRange_None
          ELSE PosRange_None

\* --------------------------------------------------------- record decoder
VcfRecord(chrom, pos, id, ref_, alt, qual, filter, info) ==
  [chrom |-> chrom, pos |-> pos, id |-> id, ref_ |-> ref_, alt |-> alt,
   qual |-> qual, filter |-> filter, info |-> info]

\* fields.get(i).unwrap_or(&".") with the 0-based index i
get_or_dot(fields, i) == IF i < Len(fields) THEN fields[i + 1] ELSE <<".">>

\* Result<Vec<VcfRecord>, _>
Ok(v) == [ok |-> TRUE, val |-> v]
Err == [ok |-> FALSE, val |-> <<>>]
unwrap_or_default(r) == IF r.ok THEN r.val ELSE <<>>

\* Variant of the loop that keeps the lines beginning with '#'.
RECURSIVE parse_lines_keeps_comments(_, _, _, _)
parse_lines_keeps_comments(lines, failAt, i, records) ==
  IF i = failAt THEN Err
  ELSE IF i > Len(lines) THEN Ok(records)
  ELSE LET line == lines[i]
           fields == split(line, TAB)
       IN IF Len(fields) < 5
          THEN parse_lines_keeps_comments(lines, failAt, i + 1, records)
          ELSE parse_lines_keeps_comments(lines, failAt, i + 1,
                 Append(records,
                   VcfRecord(fields[1], fields[2], fields[3], fields[4], fields[5],
                             get_or_dot(fields, 5), get_or_dot(fields, 6),
                             get_or_dot(fields, 7))))

\* Variant of the loop that returns the records decoded before a failed read.
RECURSIVE parse_lines_partial(_, _, _, _)
parse_lines_partial(lines, failAt, i, records) ==
  IF i = failAt THEN Ok(records)
  ELSE IF i > Len(lines) THEN Ok(records)
  ELSE LET line == lines[i]
           fields == split(line, TAB)
       IN IF starts_with(line, "#")
          THEN parse_lines_partial(lines, failAt, i + 1, records)
          ELSE IF Len(fields) < 5
          THEN parse_lines_partial(lines, failAt, i + 1, records)
          ELSE parse_lines_partial(lines, failAt, i + 1,
                 Append(records,
                   VcfRecord(fields[1], fields[2], fields[3], fields[4], fields[5],
                             get_or_dot(fields, 5), get_or_dot(fields, 6),
                             get_or_dot(fields, 7))))

\* The loop of parse_vcf over the reads from number i on: the read number
\* failAt (1-based, 0 for never) returns an error, a read past the last line
\* ends the loop.
RECURSIVE parse_lines(_, _, _, _)
parse_lines(lines, failAt, i, records) ==
  IF i = failAt THEN Err
  ELSE IF i > Len(lines) THEN Ok(records)
  ELSE LET line == lines[i]
           fields == split(line, TAB)
       IN IF starts_with(line, "#") THEN parse_lines(lines, failAt, i + 1, records)
          ELSE IF Len(fields) < 5 THEN parse_lines(lines, failAt, i + 1, records)
          ELSE parse_lines(lines, failAt, i + 1,
                 Append(records,
                   VcfRecord(fields[1], fields[2], fields[3], fields[4], fields[5],
                             get_or_dot(fields, 5), get_or_dot(fields, 6),
                             get_or_dot(fields, 7))))

\* ------------------------------------------------------------ file system
\* What the working directory holds: per path, whether File::open succeeds,
\* the lines of the file, and the line whose read fails (0 for none).
PathQ == <<".", "/", "q", ".", "v", "c", "f">>
PathF == <<".", "/", "f", "f", ".", "v", "c", "f">>
PathQF == <<".", "/", "q", "f", ".", "v", "c", "f">>
PathBad == <<".", "/", "b", ".", "v", "c", "f">>

LinesQ ==
  << <<"#", "h">>,
     <<"Q", TAB, "1", TAB, ".", TAB, "f", TAB, "q">>,
     <<"q", TAB, "1">>,
     <<"f", TAB, "2", TAB, ".", TAB, "q", TAB, "f", TAB, "9">> >>

LinesQF ==
  << <<"q", "f", TAB, "1", "0", TAB, "r", TAB, "Q", TAB, "F", TAB, "5",
       TAB, "P", TAB, "i", TAB, "x">> >>

LinesBad ==
  << <<"q", TAB, "1", TAB, ".", TAB, "q", TAB, "q">>,
     <<"f", TAB, "2", TAB, ".", TAB, "f", TAB, "f">> >>

FileSystem(path) ==
  CASE path = PathQ -> [opens |-> TRUE, lines |-> LinesQ, failAt |-> 0]
    [] path = PathF -> [opens |-> FALSE, lines |-> <<>>, failAt |-> 0]
    [] path = PathQF -> [opens |-> TRUE, lines |-> LinesQF, failAt |-> 0]
    [] path = PathBad -> [opens |-> TRUE, lines |-> LinesBad, failAt |-> 2]
    [] OTHER -> [opens |-> FALSE, lines |-> <<>>, failAt |-> 0]

Paths == {PathQ, PathF, PathQF, PathBad}

\* The catalogs WalkDir can discover, one per modelled working directory.
Catalogs == { <<>>, <<PathQ, PathF, PathQF>>, <<PathBad>> }

\* ------------------------------------------------------------------ keys
\* Characters the operator types.
Chars == {"q", "f", " "}

\* ----------------------------------------------------------------- state
VARIABLES
  tabs_index,      \* app.tabs.index
  files_items,     \* app.files.items
  files_selected,  \* app.files.selected
  files_filter,    \* app.files.filter
  vcf_records,     \* app.vcf.records
  vcf_selected,    \* app.vcf.selected
  chrom_filter,    \* app.vcf.chrom_filter
  ref_filter,      \* app.vcf.ref_filter
  alt_filter,      \* app.vcf.alt_filter
  pos_filter,      \* app.vcf.pos_filter
  modal,           \* app.modal
  exited,          \* the process has called std::process::exit
  disk             \* the files of the working directory, by path

vars == <<tabs_index, files_items, files_selected, files_filter, vcf_records,
          vcf_selected, chrom_filter, ref_filter, alt_filter, pos_filter,
          modal, exited, disk>>

criteria == <<chrom_filter, ref_filter, alt_filter, pos_filter>>

\* app.tabs.titles.len()
TitlesLen == 2

\* Characters held by the text fields of the state together.
text_held ==
  Len(files_filter) + Len(chrom_filter) + Len(ref_filter) + Len(alt_filter)
    + Len(pos_filter) + (IF modal = <<>> THEN 0 ELSE Len(modal[1].input))

\* ------------------------------------------------------------ ModalState
new_menu == [kind |-> "Menu", input |-> <<>>, menu_selected |-> 0]
new_input(kind) == [kind |-> kind, input |-> <<>>, menu_selected |-> 0]

\* ------------------------------------------------------------- App reads
\* Variant of the filter closure that compares the text fields as written,
\* without lowering their case.
record_passes_case_sensitive(r, chromF, refF, altF, pos_range) ==
  LET chrom == Len(chromF) = 0 \/ contains(r.chrom, chromF)
      ref_ == Len(refF) = 0 \/ contains(r.ref_, refF)
      alt == Len(altF) = 0 \/ contains(r.alt, altF)
      pos_ok ==
        CASE pos_range.tag = "None" -> TRUE
          [] pos_range.tag = "Exact" -> r.pos = to_string(pos_range.start)
          [] pos_range.tag = "Range" ->
               LET p == parse_u64(r.pos)
               IN IF is_some(p)
                  THEN unwrap(p) >= pos_range.start /\ unwrap(p) <= pos_range.end
                  ELSE FALSE
  IN chrom /\ ref_ /\ alt /\ pos_ok

\* Variant of the filter closure whose Exact arm compares numbers.
record_passes_numeric_exact(r, chromF, refF, altF, pos_range) ==
  LET chrom == Len(chromF) = 0
                 \/ contains(to_lowercase(r.chrom), to_lowercase(chromF))
      ref_ == Len(refF) = 0
                 \/ contains(to_lowercase(r.ref_), to_lowercase(refF))
      alt == Len(altF) = 0
                 \/ contains(to_lowercase(r.alt), to_lowercase(altF))
      pos_ok ==
        CASE pos_range.tag = "None" -> TRUE
          [] pos_range.tag \in {"Exact", "Range"} ->
               LET p == parse_u64(r.pos)
               IN IF is_some(p)
                  THEN unwrap(p) >= pos_range.start /\ unwrap(p) <= pos_range.end
                  ELSE FALSE
  IN chrom /\ ref_ /\ alt /\ pos_ok

record_passes(r, chromF, refF, altF, pos_range) ==
  LET chrom == Len(chromF) = 0
                 \/ contains(to_lowercase(r.chrom), to_lowercase(chromF))
      ref_ == Len(refF) = 0
                 \/ contains(to_lowercase(r.ref_), to_lowercase(refF))
      alt == Len(altF) = 0
                 \/ contains(to_lowercase(r.alt), to_lowercase(altF))
      pos_ok ==
        CASE pos_range.tag = "None" -> TRUE
          [] pos_range.tag = "Exact" -> r.pos = to_string(pos_range.start)
          [] pos_range.tag = "Range" ->
               LET p == parse_u64(r.pos)
               IN IF is_some(p)
                  THEN unwrap(p) >= pos_range.start /\ unwrap(p) <= pos_range.end
                  ELSE FALSE
  IN chrom /\ ref_ /\ alt /\ pos_ok

apply_filters(records, chromF, refF, altF, posF) ==
  LET pos_range == parse_pos_range(posF)
  IN SelectSeq(records, LAMBDA r : record_passes(r, chromF, refF, altF, pos_range))

filtered_records ==
  apply_filters(vcf_records, chrom_filter, ref_filter, alt_filter, pos_filter)

\* File::open, then the loop over the lines of the file
parse_vcf(path) ==
  LET file == disk[path]
  IN IF ~file.opens THEN Err
     ELSE parse_lines(file.lines, file.failAt, 1, <<>>)

\* The records load_selected_vcf stores for the catalog entry idx (0-based).
loaded_records(idx) == unwrap_or_default(parse_vcf(files_items[idx + 1]))

\* Variant of the start-up without the eager load of the first entry.
Init_no_eager_load ==
  /\ disk = [path \in Paths |-> FileSystem(path)]
  /\ files_items \in Catalogs
  /\ tabs_index = 0
  /\ files_filter = <<>>
  /\ files_selected = IF Len(files_items) = 0 THEN None ELSE Some(0)
  /\ vcf_records = <<>>
  /\ vcf_selected = None
  /\ chrom_filter = <<>>
  /\ ref_filter = <<>>
  /\ alt_filter = <<>>
  /\ pos_filter = <<>>
  /\ modal = None
  /\ exited = FALSE

\* ------------------------------------------------------------------ Init
\* main up to the event loop: App::new, the cursor on the first catalog
\* entry, and the eager load of that entry.
Init ==
  /\ disk = [path \in Paths |-> FileSystem(path)]
  /\ files_items \in Catalogs
  /\ tabs_index = 0
  /\ files_filter = <<>>
  /\ files_selected = IF Len(files_items) = 0 THEN None ELSE Some(0)
  /\ vcf_records = IF Len(files_items) = 0 THEN <<>>
                   ELSE unwrap_or_default(parse_vcf(files_items[1]))
  /\ vcf_selected = None
  /\ chrom_filter = <<>>
  /\ ref_filter = <<>>
  /\ alt_filter = <<>>
  /\ pos_filter = <<>>
  /\ modal = None
  /\ exited = FALSE

\* --------------------------------------------------------- App::mutators
\* Variant of load_selected_vcf that merges the decoded records into the
\* ones already held.
load_selected_vcf_merge ==
  IF is_some(files_selected)
  THEN /\ vcf_records' = vcf_records \o loaded_records(unwrap(files_selected))
       /\ vcf_selected' = None
  ELSE UNCHANGED <<vcf_records, vcf_selected>>

\* load_selected_vcf: with a catalog cursor, the records become the decoder's
\* output for the entry under it (nothing on a decoder error) and the record
\* cursor is reset; without a cursor nothing changes.
load_selected_vcf ==
  IF is_some(files_selected)
  THEN /\ vcf_records' = loaded_records(unwrap(files_selected))
       /\ vcf_selected' = None
  ELSE UNCHANGED <<vcf_records, vcf_selected>>

\* ------------------------------------------------- dispatch of main's loop
\* A key event goes to handle_modal_key while a modal is open, otherwise to
\* the handler of the active tab; nothing is read once the process exited.
to_files_tab == ~exited /\ modal = None /\ tabs_index = 0
\* Variant of the dispatch that lets the tab handler run below an open modal.
to_vcf_tab_under_modal == ~exited /\ tabs_index = 1
to_vcf_tab == ~exited /\ modal = None /\ tabs_index = 1
to_modal_menu == ~exited /\ is_some(modal) /\ unwrap(modal).kind = "Menu"
to_modal_input ==
  ~exited /\ is_some(modal) /\ unwrap(modal).kind \in {"Chrom", "Ref", "Alt", "Pos"}

\* ------------------------------------------------------- handle_files_tab
\* KeyCode::Char('q')
handle_files_tab_Quit ==
  /\ to_files_tab
  /\ exited' = TRUE
  /\ UNCHANGED <<tabs_index, files_items, disk, files_selected, files_filter,
                 vcf_records, vcf_selected, criteria, modal>>

\* Variant of Down with the bound test off by one.
handle_files_tab_Down_off_by_one ==
  /\ to_files_tab
  /\ files_selected' =
       IF is_some(files_selected) /\ unwrap(files_selected) + 1 <= Len(files_items)
       THEN Some(unwrap(files_selected) + 1)
       ELSE files_selected
  /\ UNCHANGED <<tabs_index, files_items, disk, files_filter, vcf_records,
                 vcf_selected, criteria, modal, exited>>

\* Variant of Down that loads the entry the cursor lands on.
handle_files_tab_Down_autoload ==
  /\ to_files_tab
  /\ files_selected' =
       IF is_some(files_selected) /\ unwrap(files_selected) + 1 < Len(files_items)
       THEN Some(unwrap(files_selected) + 1)
       ELSE files_selected
  /\ vcf_records' =
       IF is_some(files_selected') THEN loaded_records(unwrap(files_selected'))
       ELSE vcf_records
  /\ UNCHANGED <<tabs_index, files_items, disk, files_filter, vcf_selected, criteria,
                 modal, exited>>

\* KeyCode::Down
handle_files_tab_Down ==
  /\ to_files_tab
  /\ files_selected' =
       IF is_some(files_selected) /\ unwrap(files_selected) + 1 < Len(files_items)
       THEN Some(unwrap(files_selected) + 1)
       ELSE files_selected
  /\ UNCHANGED <<tabs_index, files_items, disk, files_filter, vcf_records,
                 vcf_selected, criteria, modal, exited>>

\* KeyCode::Up
handle_files_tab_Up ==
  /\ to_files_tab
  /\ files_selected' =
       IF is_some(files_selected) /\ unwrap(files_selected) > 0
       THEN Some(unwrap(files_selected) - 1)
       ELSE files_selected
  /\ UNCHANGED <<tabs_index, files_items, disk, files_filter, vcf_records,
                 vcf_selected, criteria, modal, exited>>

\* Variant of Enter that also resets the four criteria for the new file.
handle_files_tab_Enter_reset_filters ==
  /\ to_files_tab
  /\ load_selected_vcf
  /\ tabs_index' = 1
  /\ chrom_filter' = <<>>
  /\ ref_filter' = <<>>
  /\ alt_filter' = <<>>
  /\ pos_filter' = <<>>
  /\ UNCHANGED <<files_items, disk, files_selected, files_filter, modal, exited>>

\* KeyCode::Enter
handle_files_tab_Enter ==
  /\ to_files_tab
  /\ load_selected_vcf
  /\ tabs_index' = 1
  /\ UNCHANGED <<files_items, disk, files_selected, files_filter, criteria, modal,
                 exited>>

\* KeyCode::Char(c) for every character but 'q', which the first arm takes
handle_files_tab_Char ==
  /\ to_files_tab
  /\ text_held < MaxText
  /\ \E c \in Chars \ {"q"} : files_filter' = push(files_filter, c)
  /\ UNCHANGED <<tabs_index, files_items, disk, files_selected, vcf_records,
                 vcf_selected, criteria, modal, exited>>

\* KeyCode::Backspace
handle_files_tab_Backspace ==
  /\ to_files_tab
  /\ files_filter' = pop(files_filter)
  /\ UNCHANGED <<tabs_index, files_items, disk, files_selected, vcf_records,
                 vcf_selected, criteria, modal, exited>>

\* KeyCode::Tab
handle_files_tab_Tab ==
  /\ to_files_tab
  /\ tabs_index' = (tabs_index + 1) % TitlesLen
  /\ UNCHANGED <<files_items, disk, files_selected, files_filter, vcf_records,
                 vcf_selected, criteria, modal, exited>>

\* every other key (Esc, Left, ...): the `_ => {}` arm
handle_files_tab_Other ==
  /\ to_files_tab
  /\ UNCHANGED vars

\* --------------------------------------------------------- handle_vcf_tab
\* Variant of the 'q' arm that quits from the Records tab as well.
handle_vcf_tab_Back_quits ==
  /\ to_vcf_tab
  /\ exited' = TRUE
  /\ UNCHANGED <<tabs_index, files_items, disk, files_selected, files_filter,
                 vcf_records, vcf_selected, criteria, modal>>

\* KeyCode::Char('q') | KeyCode::Esc
handle_vcf_tab_Back ==
  /\ to_vcf_tab
  /\ tabs_index' = 0
  /\ UNCHANGED <<files_items, disk, files_selected, files_filter, vcf_records,
                 vcf_selected, criteria, modal, exited>>

\* Variant of Down that clamps against the whole record set.
handle_vcf_tab_Down_unfiltered ==
  /\ to_vcf_tab
  /\ vcf_selected' =
       IF is_some(vcf_selected)
       THEN IF unwrap(vcf_selected) + 1 < Len(vcf_records)
            THEN Some(unwrap(vcf_selected) + 1)
            ELSE vcf_selected
       ELSE IF Len(vcf_records) # 0 THEN Some(0) ELSE vcf_selected
  /\ UNCHANGED <<tabs_index, files_items, disk, files_selected, files_filter,
                 vcf_records, criteria, modal, exited>>

\* KeyCode::Down
handle_vcf_tab_Down ==
  /\ to_vcf_tab
  /\ LET filtered == filtered_records
     IN vcf_selected' =
          IF is_some(vcf_selected)
          THEN IF unwrap(vcf_selected) + 1 < Len(filtered)
               THEN Some(unwrap(vcf_selected) + 1)
               ELSE vcf_selected
          ELSE IF Len(filtered) # 0 THEN Some(0) ELSE vcf_selected
  /\ UNCHANGED <<tabs_index, files_items, disk, files_selected, files_filter,
                 vcf_records, criteria, modal, exited>>

\* KeyCode::Up
handle_vcf_tab_Up ==
  /\ to_vcf_tab
  /\ vcf_selected' =
       IF is_some(vcf_selected) /\ unwrap(vcf_selected) > 0
       THEN Some(unwrap(vcf_selected) - 1)
       ELSE vcf_selected
  /\ UNCHANGED <<tabs_index, files_items, disk, files_selected, files_filter,
                 vcf_records, criteria, modal, exited>>

\* KeyCode::Char('f')
handle_vcf_tab_Filter ==
  /\ to_vcf_tab
  /\ modal' = Some(new_menu)
  /\ UNCHANGED <<tabs_index, files_items, disk, files_selected, files_filter,
                 vcf_records, vcf_selected, criteria, exited>>

\* KeyCode::Tab
handle_vcf_tab_Tab ==
  /\ to_vcf_tab
  /\ tabs_index' = (tabs_index + 1) % TitlesLen
  /\ UNCHANGED <<files_items, disk, files_selected, files_filter, vcf_records,
                 vcf_selected, criteria, modal, exited>>

\* every other key (Enter, Backspace, other characters): the `_ => {}` arm
handle_vcf_tab_Other ==
  /\ to_vcf_tab
  /\ UNCHANGED vars

\* ------------------------------------------------ handle_modal_key, Menu
\* Index of the last Menu item ("Cancel").
MenuLast == 5

\* KeyCode::Up
handle_modal_key_MenuUp ==
  /\ to_modal_menu
  /\ modal' =
       IF unwrap(modal).menu_selected > 0
       THEN Some([unwrap(modal) EXCEPT !.menu_selected = @ - 1])
       ELSE modal
  /\ UNCHANGED <<tabs_index, files_items, disk, files_selected, files_filter,
                 vcf_records, vcf_selected, criteria, exited>>

\* Variant of Down with the bound test off by one.
handle_modal_key_MenuDown_off_by_one ==
  /\ to_modal_menu
  /\ modal' =
       IF unwrap(modal).menu_selected <= MenuLast
       THEN Some([unwrap(modal) EXCEPT !.menu_selected = @ + 1])
       ELSE modal
  /\ UNCHANGED <<tabs_index, files_items, disk, files_selected, files_filter,
                 vcf_records, vcf_selected, criteria, exited>>

\* KeyCode::Down
handle_modal_key_MenuDown ==
  /\ to_modal_menu
  /\ modal' =
       IF unwrap(modal).menu_selected < MenuLast
       THEN Some([unwrap(modal) EXCEPT !.menu_selected = @ + 1])
       ELSE modal
  /\ UNCHANGED <<tabs_index, files_items, disk, files_selected, files_filter,
                 vcf_records, vcf_selected, criteria, exited>>

\* Variant of Enter for the five-item menu without the POS entry.
handle_modal_key_MenuEnter_five_items ==
  /\ to_modal_menu
  /\ LET sel == unwrap(modal).menu_selected
     IN CASE sel = 0 -> modal' = Some(new_input("Chrom")) /\ UNCHANGED criteria
          [] sel = 1 -> modal' = Some(new_input("Ref")) /\ UNCHANGED criteria
          [] sel = 2 -> modal' = Some(new_input("Alt")) /\ UNCHANGED criteria
          [] sel = 3 -> /\ chrom_filter' = <<>>
                        /\ ref_filter' = <<>>
                        /\ alt_filter' = <<>>
                        /\ pos_filter' = <<>>
                        /\ modal' = None
          [] sel = 4 -> modal' = None /\ UNCHANGED criteria
          [] OTHER -> UNCHANGED <<modal, criteria>>
  /\ UNCHANGED <<tabs_index, files_items, disk, files_selected, files_filter,
                 vcf_records, vcf_selected, exited>>

\* KeyCode::Enter, by highlighted index
handle_modal_key_MenuEnter ==
  /\ to_modal_menu
  /\ LET sel == unwrap(modal).menu_selected
     IN CASE sel = 0 -> modal' = Some(new_input("Chrom")) /\ UNCHANGED criteria
          [] sel = 1 -> modal' = Some(new_input("Ref")) /\ UNCHANGED criteria
          [] sel = 2 -> modal' = Some(new_input("Alt")) /\ UNCHANGED criteria
          [] sel = 3 -> modal' = Some(new_input("Pos")) /\ UNCHANGED criteria
          [] sel = 4 -> /\ chrom_filter' = <<>>
                        /\ ref_filter' = <<>>
                        /\ alt_filter' = <<>>
                        /\ pos_filter' = <<>>
                        /\ modal' = None
          [] sel = 5 -> modal' = None /\ UNCHANGED criteria
          [] OTHER -> UNCHANGED <<modal, criteria>>
  /\ UNCHANGED <<tabs_index, files_items, disk, files_selected, files_filter,
                 vcf_records, vcf_selected, exited>>

\* KeyCode::Esc
handle_modal_key_MenuEsc ==
  /\ to_modal_menu
  /\ modal' = None
  /\ UNCHANGED <<tabs_index, files_items, disk, files_selected, files_filter,
                 vcf_records, vcf_selected, criteria, exited>>

\* Variant of the Menu's fall-through arm in which Tab cycles the tab.
handle_modal_key_MenuOther_tab_cycles ==
  /\ to_modal_menu
  /\ tabs_index' = (tabs_index + 1) % TitlesLen
  /\ UNCHANGED <<files_items, disk, files_selected, files_filter, vcf_records,
                 vcf_selected, criteria, modal, exited>>

\* every other key (characters, Tab, Backspace, ...): the `_ => {}` arm
handle_modal_key_MenuOther ==
  /\ to_modal_menu
  /\ UNCHANGED vars

\* ------------------------------------------- handle_modal_key, TextInput
\* KeyCode::Char(c)
handle_modal_key_InputChar ==
  /\ to_modal_input
  /\ text_held < MaxText
  /\ \E c \in Chars : modal' = Some([unwrap(modal) EXCEPT !.input = push(@, c)])
  /\ UNCHANGED <<tabs_index, files_items, disk, files_selected, files_filter,
                 vcf_records, vcf_selected, criteria, exited>>

\* KeyCode::Backspace
handle_modal_key_InputBackspace ==
  /\ to_modal_input
  /\ modal' = Some([unwrap(modal) EXCEPT !.input = pop(@)])
  /\ UNCHANGED <<tabs_index, files_items, disk, files_selected, files_filter,
                 vcf_records, vcf_selected, criteria, exited>>

\* Variant of Enter that commits the buffer as typed.
handle_modal_key_InputEnter_untrimmed ==
  /\ to_modal_input
  /\ LET txt == unwrap(modal).input
         kind == unwrap(modal).kind
     IN /\ chrom_filter' = IF kind = "Chrom" THEN txt ELSE chrom_filter
        /\ ref_filter' = IF kind = "Ref" THEN txt ELSE ref_filter
        /\ alt_filter' = IF kind = "Alt" THEN txt ELSE alt_filter
        /\ pos_filter' = IF kind = "Pos" THEN txt ELSE pos_filter
  /\ modal' = None
  /\ UNCHANGED <<tabs_index, files_items, disk, files_selected, files_filter,
                 vcf_records, vcf_selected, exited>>

\* KeyCode::Enter
handle_modal_key_InputEnter ==
  /\ to_modal_input
  /\ LET txt == trim(unwrap(modal).input)
         kind == unwrap(modal).kind
     IN /\ chrom_filter' = IF kind = "Chrom" THEN txt ELSE chrom_filter
        /\ ref_filter' = IF kind = "Ref" THEN txt ELSE ref_filter
        /\ alt_filter' = IF kind = "Alt" THEN txt ELSE alt_filter
        /\ pos_filter' = IF kind = "Pos" THEN txt ELSE pos_filter
  /\ modal' = None
  /\ UNCHANGED <<tabs_index, files_items, disk, files_selected, files_filter,
                 vcf_records, vcf_selected, exited>>

\* Variant of Esc that empties the buffer and keeps the modal open.
handle_modal_key_InputEsc_keeps_open ==
  /\ to_modal_input
  /\ modal' = Some([unwrap(modal) EXCEPT !.input = <<>>])
  /\ UNCHANGED <<tabs_index, files_items, disk, files_selected, files_filter,
                 vcf_records, vcf_selected, criteria, exited>>

\* KeyCode::Esc
handle_modal_key_InputEsc ==
  /\ to_modal_input
  /\ modal' = None
  /\ UNCHANGED <<tabs_index, files_items, disk, files_selected, files_filter,
                 vcf_records, vcf_selected, criteria, exited>>

\* every other key (Up, Down, Tab, ...): the `_ => {}` arm
handle_modal_key_InputOther ==
  /\ to_modal_input
  /\ UNCHANGED vars

\* ------------------------------------------------------- render_file_tab
\* The catalog entries the file list shows: those whose path contains the
\* file-name filter, letters compared in lower case.
render_file_tab_items ==
  SelectSeq(files_items,
            LAMBDA path : Len(files_filter) = 0
                            \/ contains(to_lowercase(path), to_lowercase(files_filter)))

\* The shown entry drawn in the highlight style: the one whose position in
\* the shown list equals the catalog cursor, if there is one.
render_file_tab_highlighted ==
  IF is_some(files_selected) /\ unwrap(files_selected) < Len(render_file_tab_items)
  THEN Some(render_file_tab_items[unwrap(files_selected) + 1])
  ELSE None

\* ------------------------------------------------------------------ Next
handle_files_tab ==
  \/ handle_files_tab_Quit
  \/ handle_files_tab_Down
  \/ handle_files_tab_Up
  \/ handle_files_tab_Enter
  \/ handle_files_tab_Char
  \/ handle_files_tab_Backspace
  \/ handle_files_tab_Tab
  \/ handle_files_tab_Other

handle_vcf_tab ==
  \/ handle_vcf_tab_Back
  \/ handle_vcf_tab_Down
  \/ handle_vcf_tab_Up
  \/ handle_vcf_tab_Filter
  \/ handle_vcf_tab_Tab
  \/ handle_vcf_tab_Other

handle_modal_key ==
  \/ handle_modal_key_MenuUp
  \/ handle_modal_key_MenuDown
  \/ handle_modal_key_MenuEnter
  \/ handle_modal_key_MenuEsc
  \/ handle_modal_key_MenuOther
  \/ handle_modal_key_InputChar
  \/ handle_modal_key_InputBackspace
  \/ handle_modal_key_InputEnter
  \/ handle_modal_key_InputEsc
  \/ handle_modal_key_InputOther

Next == handle_files_tab \/ handle_vcf_tab \/ handle_modal_key

Spec == Init /\ [][Next]_vars

\* ------------------------------------------------------------ type check
TypeOK ==
  /\ tabs_index \in 0..1
  /\ files_items \in Catalogs
  /\ Len(files_selected) <= 1
  /\ Len(vcf_selected) <= 1
  /\ Len(modal) <= 1
  /\ exited \in BOOLEAN

\* ================================================================ claims
Sel(i) == Some(i)
menu_open == is_some(modal) /\ unwrap(modal).kind = "Menu"
input_open == is_some(modal) /\ unwrap(modal).kind # "Menu"

\* Number of records of the current set that pass the four current criteria,
\* counted record by record.
passing_count ==
  Cardinality({i \in 1..Len(vcf_records) :
     record_passes(vcf_records[i], chrom_filter, ref_filter, alt_filter,
                   parse_pos_range(pos_filter))})

\* t is s without its leading and trailing whitespace.
IsTrimOf(t, s) ==
  /\ Len(t) = 0 \/ (~IsWhitespace(t[1]) /\ ~IsWhitespace(t[Len(t)]))
  /\ \E a \in 0..Len(s) : \E b \in a..Len(s) :
       /\ t = SubSeq(s, a + 1, b)
       /\ \A k \in (1..a) \cup ((b + 1)..Len(s)) : IsWhitespace(s[k])

\* C1: Enter on the Files tab with no modal and a file selected replaces the
\* whole record set by the decoder's output for the entry under the catalog
\* cursor, resets the record cursor to none and switches to the Records tab;
\* with an empty catalog it only switches the tab.
C1_EnterLoadsSelected ==
  [][handle_files_tab_Enter =>
       /\ tabs_index' = 1
       /\ IF is_some(files_selected)
          THEN /\ vcf_records' =
                    unwrap_or_default(parse_vcf(files_items[unwrap(files_selected) + 1]))
               /\ vcf_selected' = None
          ELSE /\ files_items = <<>>
               /\ vcf_records' = vcf_records
               /\ vcf_selected' = vcf_selected]_vars

\* Witness of C1: the third catalog entry has been loaded over the records of
\* the first one.
C1_Witness ==
  /\ tabs_index = 1
  /\ files_selected = Sel(2)
  /\ Len(files_items) = 3
  /\ vcf_records = unwrap_or_default(parse_vcf(files_items[3]))
  /\ Len(vcf_records) = 1
  /\ vcf_selected = None

\* C2: on the Records tab with no modal, Down moves the record cursor from i
\* to i+1 only when i+1 is below the number of records passing the criteria,
\* sets it to 0 from none when some record passes, and otherwise leaves it;
\* Up moves i to i-1 when i > 0 and otherwise leaves it.
C2_RecordCursorMoves ==
  [][/\ handle_vcf_tab_Down =>
          vcf_selected' =
            IF vcf_selected = None
            THEN (IF passing_count > 0 THEN Sel(0) ELSE None)
            ELSE (IF vcf_selected[1] + 1 < passing_count
                  THEN Sel(vcf_selected[1] + 1)
                  ELSE vcf_selected)
     /\ handle_vcf_tab_Up =>
          vcf_selected' =
            IF vcf_selected # None /\ vcf_selected[1] > 0
            THEN Sel(vcf_selected[1] - 1)
            ELSE vcf_selected]_vars

\* Witness of C2: the criteria hide a record and the cursor sits on the last
\* record of the filtered view.
C2_Witness ==
  /\ tabs_index = 1
  /\ modal = None
  /\ passing_count = 1
  /\ Len(vcf_records) = 2
  /\ vcf_selected = Sel(0)

\* The catalog cursor is none exactly when the catalog is empty, and is
\* otherwise an index into the catalog.
CatalogCursorValid ==
  IF Len(files_items) = 0 THEN files_selected = None
  ELSE files_selected # None /\ files_selected[1] \in 0..(Len(files_items) - 1)

\* C3: on the Files tab with no modal, Down moves the catalog cursor from i
\* to i+1 only when i+1 < catalog length and Up from i to i-1 only when
\* i > 0, otherwise they change nothing; the catalog cursor is always none
\* for an empty catalog and a valid index otherwise.
C3_CatalogCursorClamped ==
  /\ CatalogCursorValid
  /\ [][/\ handle_files_tab_Down =>
             files_selected' =
               IF files_selected # None /\ files_selected[1] + 1 < Len(files_items)
               THEN Sel(files_selected[1] + 1)
               ELSE files_selected
        /\ handle_files_tab_Up =>
             files_selected' =
               IF files_selected # None /\ files_selected[1] > 0
               THEN Sel(files_selected[1] - 1)
               ELSE files_selected
        /\ CatalogCursorValid']_vars

\* Witness of C3: three catalog entries and the cursor on the last one.
C3_Witness ==
  /\ tabs_index = 0
  /\ modal = None
  /\ Len(files_items) = 3
  /\ files_selected = Sel(2)

\* C4: while a modal is open no key event changes the active tab, the
\* catalog cursor, the file-name filter, the record set or the record
\* cursor, and none terminates the process.
C4_ModalCapturesKeys ==
  [][is_some(modal) =>
       /\ tabs_index' = tabs_index
       /\ files_selected' = files_selected
       /\ files_filter' = files_filter
       /\ vcf_records' = vcf_records
       /\ vcf_selected' = vcf_selected
       /\ exited' = exited]_vars

\* Witness of C4: 'q' was typed into a TextInput modal and only the buffer
\* took it.
C4_Witness ==
  /\ input_open
  /\ unwrap(modal).input = <<"q">>
  /\ tabs_index = 1
  /\ ~exited

\* The criterion a TextInput modal of the given kind edits.
target_of(kind, c) ==
  CASE kind = "Chrom" -> c[1]
    [] kind = "Ref" -> c[2]
    [] kind = "Alt" -> c[3]
    [] kind = "Pos" -> c[4]

index_of(kind) ==
  CASE kind = "Chrom" -> 1 [] kind = "Ref" -> 2 [] kind = "Alt" -> 3 [] kind = "Pos" -> 4

\* C5: in a TextInput modal a character key appends to the buffer, Backspace
\* removes the last character (nothing on an empty buffer), and Enter sets
\* the target criterion to the whitespace-trimmed buffer, leaves the other
\* three criteria unchanged and closes the modal.
C5_TextInputEdits ==
  [][/\ handle_modal_key_InputChar =>
          /\ input_open'
          /\ unwrap(modal').kind = unwrap(modal).kind
          /\ \E c \in Chars : unwrap(modal').input = unwrap(modal).input \o <<c>>
          /\ criteria' = criteria
     /\ handle_modal_key_InputBackspace =>
          /\ input_open'
          /\ unwrap(modal').kind = unwrap(modal).kind
          /\ LET buf == unwrap(modal).input
             IN unwrap(modal').input =
                  IF Len(buf) = 0 THEN <<>> ELSE [i \in 1..(Len(buf) - 1) |-> buf[i]]
          /\ criteria' = criteria
     /\ handle_modal_key_InputEnter =>
          /\ modal' = None
          /\ IsTrimOf(target_of(unwrap(modal).kind, criteria'), unwrap(modal).input)
          /\ \A k \in 1..4 :
               k # index_of(unwrap(modal).kind) => criteria'[k] = criteria[k]]_vars

\* Witness of C5: two different criteria have been committed and the modal
\* is closed.
C5_Witness ==
  /\ modal = None
  /\ chrom_filter = <<"f">>
  /\ ref_filter = <<"q">>
  /\ alt_filter = <<>>
  /\ pos_filter = <<>>

\* C6: Enter in the Menu on index 0, 1, 2, 3 opens a TextInput modal for
\* chromosome, reference, alternate, position with an empty buffer and no
\* criterion changed; on 4 it clears the four criteria and closes the modal;
\* on 5 it closes the modal with no criterion changed.
C6_MenuEnterDispatch ==
  [][handle_modal_key_MenuEnter =>
       LET sel == unwrap(modal).menu_selected
       IN /\ sel \in 0..5
          /\ sel = 0 => modal' = <<[kind |-> "Chrom", input |-> <<>>, menu_selected |-> 0]>>
          /\ sel = 1 => modal' = <<[kind |-> "Ref", input |-> <<>>, menu_selected |-> 0]>>
          /\ sel = 2 => modal' = <<[kind |-> "Alt", input |-> <<>>, menu_selected |-> 0]>>
          /\ sel = 3 => modal' = <<[kind |-> "Pos", input |-> <<>>, menu_selected |-> 0]>>
          /\ sel \in 0..3 => criteria' = criteria
          /\ sel = 4 => modal' = None /\ criteria' = <<<<>>, <<>>, <<>>, <<>>>>
          /\ sel = 5 => modal' = None /\ criteria' = criteria]_vars

\* Witness of C6: a position TextInput modal is open with an empty buffer
\* while a criterion set earlier is still in place.
C6_Witness ==
  /\ input_open
  /\ unwrap(modal).kind = "Pos"
  /\ unwrap(modal).input = <<>>
  /\ chrom_filter = <<"q">>

\* C7: the four criteria change only by Enter in a TextInput modal, which
\* changes only the target criterion, and by Enter on the Menu's "Clear all"
\* item; every other key event leaves them as they are.
C7_CriteriaChangeOnlyByCommitOrClear ==
  [][criteria' # criteria =>
       \/ /\ handle_modal_key_InputEnter
          /\ \A k \in 1..4 :
               k # index_of(unwrap(modal).kind) => criteria'[k] = criteria[k]
       \/ /\ handle_modal_key_MenuEnter
          /\ unwrap(modal).menu_selected = 4
          /\ criteria' = <<<<>>, <<>>, <<>>, <<>>>>]_vars

\* Witness of C7: a committed criterion is still in place on the Files tab
\* after another file was loaded and the tab switched back.
C7_Witness ==
  /\ tabs_index = 0
  /\ modal = None
  /\ alt_filter = <<"q">>
  /\ files_selected = Sel(2)
  /\ Len(vcf_records) = 1

\* C8: the record set changes only by Enter on the Files tab with no modal,
\* and then to the decoder's output for the entry under the catalog cursor.
C8_RecordsChangeOnlyByLoad ==
  [][vcf_records' # vcf_records =>
       /\ handle_files_tab_Enter
       /\ files_selected # None
       /\ files_selected' = files_selected]_vars

\* Witness of C8: the catalog cursor has moved to the third entry and the
\* records are still those of the first.
C8_Witness ==
  /\ tabs_index = 0
  /\ Len(files_items) = 3
  /\ files_selected = Sel(2)
  /\ files_filter = <<"f">>
  /\ Len(vcf_records) = 2

\* C9: in the Menu, Up and Down move the highlighted index by one within
\* [0, 5], Up at 0 and Down at 5 change nothing, the Menu opens on index 0,
\* and Esc closes it from any index.
C9_MenuIndexClamped ==
  [][/\ handle_modal_key_MenuUp =>
          /\ menu_open'
          /\ unwrap(modal').menu_selected =
               IF unwrap(modal).menu_selected = 0 THEN 0
               ELSE unwrap(modal).menu_selected - 1
     /\ handle_modal_key_MenuDown =>
          /\ menu_open'
          /\ unwrap(modal').menu_selected =
               IF unwrap(modal).menu_selected = 5 THEN 5
               ELSE unwrap(modal).menu_selected + 1
     /\ handle_vcf_tab_Filter => menu_open' /\ unwrap(modal').menu_selected = 0
     /\ handle_modal_key_MenuEsc => modal' = None
     /\ menu_open' => unwrap(modal').menu_selected \in 0..5]_vars

\* Witness of C9: the Menu is open with the last item highlighted.
C9_Witness ==
  /\ menu_open
  /\ unwrap(modal).menu_selected = 5

\* What C10 says of the state before any key event.
InitialStateAsSpecified ==
  /\ tabs_index = 0
  /\ modal = None
  /\ criteria = <<<<>>, <<>>, <<>>, <<>>>>
  /\ vcf_selected = None
  /\ ~exited
  /\ IF Len(files_items) = 0
     THEN files_selected = None /\ vcf_records = <<>>
     ELSE /\ files_selected = Sel(0)
          /\ vcf_records = unwrap_or_default(parse_vcf(files_items[1]))

\* C10: the state before any key event has the Files tab active, no modal,
\* the four criteria empty, no record selected, the catalog cursor on index
\* 0 of a non-empty catalog (none for an empty one) and the records of the
\* first catalog entry loaded (none for an empty catalog); the catalog
\* built at start-up is the one every later state keeps.
C10_InitialState ==
  /\ InitialStateAsSpecified
  /\ [][files_items' = files_items]_vars

\* Witness of C10: the start-up state of a three-entry catalog, the two
\* records of its first entry loaded.
C10_Witness ==
  /\ InitialStateAsSpecified
  /\ Len(files_items) = 3
  /\ Len(vcf_records) = 2
  /\ files_filter = <<>>

\* C11: the process terminates only by the quit key on the Files tab with no
\* modal open, whatever the file-name filter holds, and 'q' never reaches
\* that filter; the 'q' arm of the Records tab only returns to the Files
\* tab, and no key handled by a modal terminates.
C11_OnlyFilesQuitTerminates ==
  [][/\ exited' # exited =>
          /\ ~exited /\ exited'
          /\ modal = None /\ tabs_index = 0
          /\ UNCHANGED <<tabs_index, files_items, files_selected, files_filter,
                         vcf_records, vcf_selected, criteria, modal>>
     /\ handle_files_tab_Quit => exited'
     /\ handle_vcf_tab_Back =>
          /\ tabs_index' = 0
          /\ ~exited'
          /\ UNCHANGED <<files_selected, files_filter, vcf_records,
                         vcf_selected, criteria, modal>>
     /\ \A i \in 1..Len(files_filter') : files_filter'[i] # "q"]_vars

\* Witness of C11: the process has exited with text in the file-name filter,
\* after 'q' had been committed from a TextInput modal.
C11_Witness ==
  /\ exited
  /\ files_filter = <<"f">>
  /\ chrom_filter = <<"q">>

\* ============================================ filter engine, on its inputs
\* The filter engine is a function of the record set and the four criteria.
\* SpecFilter starts the Records tab on every record set of up to MaxRecs
\* lines of FilterLines, decoded from the one file of the catalog, with
\* every combination of the criteria below in place, and lets the operator
\* move the record cursor, which evaluates filtered_records.

\* Most lines of the file the filter engine is run on.
MaxRecs == 3

Line_chr1_100 ==
  <<"c", "h", "r", "1">> \o <<TAB>> \o <<"1", "0", "0">> \o <<TAB, ".", TAB>>
    \o <<"A">> \o <<TAB>> \o <<"G">>
Line_chr1_250 ==
  <<"c", "h", "r", "1">> \o <<TAB>> \o <<"2", "5", "0">> \o <<TAB, ".", TAB>>
    \o <<"A">> \o <<TAB>> \o <<"T">>
Line_chr2_100 ==
  <<"c", "h", "r", "2">> \o <<TAB>> \o <<"1", "0", "0">> \o <<TAB, ".", TAB>>
    \o <<"C">> \o <<TAB>> \o <<"G">>
Line_Chr1_0100 ==
  <<"C", "h", "r", "1">> \o <<TAB>> \o <<"0", "1", "0", "0">> \o <<TAB, ".", TAB>>
    \o <<"a">> \o <<TAB>> \o <<"g">>
Line_chrX_abc ==
  <<"c", "h", "r", "X">> \o <<TAB>> \o <<"a", "b", "c">> \o <<TAB, ".", TAB>>
    \o <<"A", "T">> \o <<TAB>> \o <<".">>
Line_chr1_plus150 ==
  <<"c", "h", "r", "1">> \o <<TAB>> \o <<"+", "1", "5", "0">> \o <<TAB, ".", TAB>>
    \o <<"A">> \o <<TAB>> \o <<"G">>

FilterLines ==
  {Line_chr1_100, Line_chr1_250, Line_chr2_100,
   Line_Chr1_0100, Line_chrX_abc, Line_chr1_plus150}

FilterFiles == UNION {[1..n -> FilterLines] : n \in 0..MaxRecs}

ChromCriteria == {<<>>, <<"c", "h", "r", "1">>, <<"C", "H", "R">>}
RefCriteria == {<<>>, <<"a">>}
AltCriteria == {<<>>, <<"G">>}
PosCriteria ==
  {<<>>, <<"1", "0", "0">>, <<"1", "0", "0", "-", "2", "0", "0">>,
   <<"0", "1", "0", "0">>}

InitFilter ==
  /\ \E lines \in FilterFiles :
       disk = [path \in {PathQ} |-> [opens |-> TRUE, lines |-> lines, failAt |-> 0]]
  /\ files_items = <<PathQ>>
  /\ files_selected = Some(0)
  /\ files_filter = <<>>
  /\ vcf_records = unwrap_or_default(parse_vcf(files_items[1]))
  /\ vcf_selected = None
  /\ chrom_filter \in ChromCriteria
  /\ ref_filter \in RefCriteria
  /\ alt_filter \in AltCriteria
  /\ pos_filter \in PosCriteria
  /\ tabs_index = 1
  /\ modal = None
  /\ exited = FALSE

NextFilter == handle_vcf_tab_Down \/ handle_vcf_tab_Up

SpecFilter == InitFilter /\ [][NextFilter]_vars

\* ---- the filter as the specification words it
\* Value of a string of decimal digits.
RECURSIVE numeral_value(_)
numeral_value(s) ==
  IF Len(s) = 0 THEN 0
  ELSE (CHOOSE d \in 0..9 : Digits[d + 1] = s[1]) * 10 ^ (Len(s) - 1)
         + numeral_value(Tail(s))

all_digits(s) == Len(s) > 0 /\ \A i \in 1..Len(s) : s[i] \in {Digits[d] : d \in 1..10}

\* s is text that parses as a non-negative integer: decimal digits, with or
\* without a leading plus sign.
is_integer_text(s) ==
  all_digits(s) \/ (Len(s) > 1 /\ s[1] = "+" /\ all_digits(Tail(s)))

integer_of(s) == IF s[1] = "+" THEN numeral_value(Tail(s)) ELSE numeral_value(s)

\* s is the canonical decimal text of v: digits only, no leading zero.
is_canonical_of(s, v) ==
  all_digits(s) /\ (Len(s) = 1 \/ s[1] # "0") /\ numeral_value(s) = v

\* crit is empty or occurs in field, letters compared without case.
ci_substring(field, crit) ==
  \/ crit = <<>>
  \/ \E off \in 0..(Len(field) - Len(crit)) :
       \A j \in 1..Len(crit) :
         to_lowercase_char(field[off + j]) = to_lowercase_char(crit[j])

position_passes(pos, range) ==
  CASE range.tag = "None" -> TRUE
    [] range.tag = "Exact" -> is_canonical_of(pos, range.start)
    [] range.tag = "Range" ->
         /\ is_integer_text(pos)
         /\ range.start <= integer_of(pos)
         /\ integer_of(pos) <= range.end

passes_all(r, range) ==
  /\ ci_substring(r.chrom, chrom_filter)
  /\ ci_substring(r.ref_, ref_filter)
  /\ ci_substring(r.alt, alt_filter)
  /\ position_passes(r.pos, range)

\* The k-th smallest index of the set idx.
kth_of(idx, k) == CHOOSE i \in idx : Cardinality({j \in idx : j <= i}) = k

\* C12: the filtered view is exactly the records that pass all four
\* criteria, in their original order with duplicates kept; a chromosome,
\* reference or alternate criterion passes when empty or when it occurs in
\* the field without regard to case; with the four criteria empty the view
\* is the whole record sequence.
C12_FilteredViewIsPassingSubsequence ==
  LET view == filtered_records
      range == parse_pos_range(pos_filter)
      passing == {i \in 1..Len(vcf_records) : passes_all(vcf_records[i], range)}
  IN /\ Len(view) = Cardinality(passing)
     /\ \A k \in 1..Len(view) : view[k] = vcf_records[kth_of(passing, k)]
     /\ criteria = <<<<>>, <<>>, <<>>, <<>>>> => view = vcf_records

\* Witness of C12: of the records (chr1,100), (chr1,250), (chr2,100) the
\* chromosome criterion "chr1" and the position criterion "100-200" leave
\* the first one only, and the cursor is on it.
C12_Witness ==
  /\ disk[PathQ].lines = <<Line_chr1_100, Line_chr1_250, Line_chr2_100>>
  /\ Len(vcf_records) = 3
  /\ chrom_filter = <<"c", "h", "r", "1">>
  /\ ref_filter = <<>>
  /\ alt_filter = <<>>
  /\ pos_filter = <<"1", "0", "0", "-", "2", "0", "0">>
  /\ filtered_records = <<vcf_records[1]>>
  /\ vcf_selected = Sel(0)

\* C13: Unconstrained passes every record; Exact(v) passes exactly the
\* records whose position text is the canonical decimal text of v;
\* Range(low, high) passes exactly the records whose position text parses
\* as a non-negative integer p with low <= p <= high.
C13_PositionCriterion ==
  \A i \in 1..Len(vcf_records) :
    LET r == vcf_records[i]
        range == parse_pos_range(pos_filter)
    IN record_passes(r, <<>>, <<>>, <<>>, range) = position_passes(r.pos, range)

\* Witness of C13: the position criterion "100" is Exact(100), and the
\* record with the position text "0100" is not in the view while the one
\* with "100" is.
C13_Witness ==
  /\ disk[PathQ].lines = <<Line_Chr1_0100, Line_chr1_100>>
  /\ criteria = <<<<>>, <<>>, <<>>, <<"1", "0", "0">>>>
  /\ parse_pos_range(pos_filter) = PosRange_Exact(100)
  /\ Len(filtered_records) = 1
  /\ filtered_records[1].pos = <<"1", "0", "0">>
  /\ vcf_selected = Sel(0)

\* ================================== position-expression parser, on its inputs
\* SpecPos starts with a position TextInput modal open on the Records tab,
\* its buffer holding any text of up to MaxExprLen characters of PosChars or
\* one of the expressions the specification names; the operator accepts it
\* and moves the record cursor, which parses the committed expression.

\* Longest generated position expression.
MaxExprLen == 3

PosChars == {"0", "1", "2", "-", "+", " ", "a"}

NamedPosExprs ==
  {<<"1", "0", "0">>, <<"1", "0", "0", "-", "2", "0", "0">>,
   <<"2", "0", "0", "-", "1", "0", "0">>, <<"a", "b", "c">>,
   <<"1", "0", "0", "-", "2", "0", "0", "-", "3", "0", "0">>,
   <<" ", "1", "0", "0", " ", "-", " ", "2", "0", "0", " ">>}

PosExprs == NamedPosExprs \cup UNION {[1..n -> PosChars] : n \in 0..MaxExprLen}

InitPos ==
  /\ disk = [path \in {PathQ} |->
               [opens |-> TRUE, lines |-> <<Line_chr1_100, Line_chr1_250>>,
                failAt |-> 0]]
  /\ files_items = <<PathQ>>
  /\ files_selected = Some(0)
  /\ files_filter = <<>>
  /\ vcf_records = unwrap_or_default(parse_vcf(files_items[1]))
  /\ vcf_selected = None
  /\ chrom_filter = <<>>
  /\ ref_filter = <<>>
  /\ alt_filter = <<>>
  /\ pos_filter = <<>>
  /\ tabs_index = 1
  /\ \E expr \in PosExprs :
       modal = Some([kind |-> "Pos", input |-> expr, menu_selected |-> 0])
  /\ exited = FALSE

NextPos == handle_modal_key_InputEnter \/ handle_vcf_tab_Down \/ handle_vcf_tab_Up

SpecPos == InitPos /\ [][NextPos]_vars

\* ---- the parser as the specification words it
hyphens(s) == {i \in 1..Len(s) : s[i] = "-"}

\* The text s without its leading and trailing whitespace.
stripped(s) ==
  CHOOSE t \in {SubSeq(s, a, b) : a \in 1..(Len(s) + 1), b \in 0..Len(s)} :
    IsTrimOf(t, s)

expected_range(input) ==
  LET t == stripped(input)
  IN IF t = <<>> THEN [tag |-> "None", start |-> 0, end |-> 0]
     ELSE IF is_integer_text(t)
          THEN [tag |-> "Exact", start |-> integer_of(t), end |-> integer_of(t)]
     ELSE IF Cardinality(hyphens(t)) = 1
          THEN LET h == CHOOSE i \in hyphens(t) : TRUE
                   low == stripped(SubSeq(t, 1, h - 1))
                   high == stripped(SubSeq(t, h + 1, Len(t)))
               IN IF /\ is_integer_text(low)
                     /\ is_integer_text(high)
                     /\ integer_of(low) <= integer_of(high)
                  THEN [tag |-> "Range", start |-> integer_of(low),
                        end |-> integer_of(high)]
                  ELSE [tag |-> "None", start |-> 0, end |-> 0]
     ELSE [tag |-> "None", start |-> 0, end |-> 0]

\* The expressions of the state: the committed position criterion and the
\* buffer of an open position TextInput modal.
held_exprs ==
  {pos_filter} \cup (IF input_open THEN {unwrap(modal).input} ELSE {})

\* C14: the parser, after trimming, yields Unconstrained for empty text,
\* Exact(n) for a single non-negative integer, Range(low, high) for two
\* trimmed non-negative integers around one hyphen with low <= high, and
\* Unconstrained for everything else; every Range has low <= high, and
\* under a malformed committed expression every record passes.
C14_ParsePosRange ==
  /\ \A expr \in held_exprs :
       /\ parse_pos_range(expr) = expected_range(expr)
       /\ parse_pos_range(expr).tag = "Range" =>
            parse_pos_range(expr).start <= parse_pos_range(expr).end
  /\ parse_pos_range(pos_filter).tag = "None" =>
       \A i \in 1..Len(vcf_records) :
         record_passes(vcf_records[i], <<>>, <<>>, <<>>, parse_pos_range(pos_filter))
  /\ pos_filter = <<"1", "0", "0">> => parse_pos_range(pos_filter) = PosRange_Exact(100)
  /\ pos_filter = <<"1", "0", "0", "-", "2", "0", "0">> =>
       parse_pos_range(pos_filter) = PosRange_Range(100, 200)
  /\ pos_filter \in {<<"2", "0", "0", "-", "1", "0", "0">>, <<"a", "b", "c">>, <<>>,
                     <<"1", "0", "0", "-", "2", "0", "0", "-", "3", "0", "0">>} =>
       parse_pos_range(pos_filter) = PosRange_None

\* Witness of C14: "200-100" has been committed, parses to Unconstrained,
\* and both records are in the view with the cursor on the second.
C14_Witness ==
  /\ modal = None
  /\ pos_filter = <<"2", "0", "0", "-", "1", "0", "0">>
  /\ parse_pos_range(pos_filter) = PosRange_None
  /\ Len(filtered_records) = 2
  /\ vcf_selected = Sel(1)

\* =========================================== record decoder, on its inputs
\* SpecDecode starts the program in a working directory whose one file holds
\* any sequence of up to MaxLines lines of DecodeLines, opens or not, and
\* fails at none or any one of its reads; the operator loads the file again
\* from the Files tab, goes back, and moves the record cursor.

\* Most lines of the decoded file.
MaxLines == 2

Line_comment == <<"#", "c", "o", "m", "m", "e", "n", "t">>
Line_rs1 ==
  <<"c", "h", "r", "1", TAB, "1", "0", "0", TAB, "r", "s", "1", TAB, "A", TAB, "G">>
Line_four_fields ==
  <<"c", "h", "r", "1", TAB, "1", "0", "0", TAB, "r", "s", "1", TAB, "A">>
Line_six_fields ==
  <<"c", "h", "r", "2", TAB, "7", TAB, ".", TAB, "C", TAB, "T", TAB, "9">>
Line_seven_fields ==
  <<"c", "h", "r", "2", TAB, "7", TAB, ".", TAB, "C", TAB, "T", TAB, "9", TAB, "P", "A", "S", "S">>
Line_eight_fields ==
  <<"c", "h", "r", "2", TAB, "7", TAB, ".", TAB, "C", TAB, "T", TAB, "9", TAB, "P", "A", "S", "S", TAB, "D", "P", "=", "1">>
Line_nine_fields ==
  <<"c", "h", "r", "2", TAB, "7", TAB, ".", TAB, "C", TAB, "T", TAB, "9", TAB, "P", "A", "S", "S", TAB, "D", "P", "=", "1", TAB, "G", "T">>
Line_empty == <<>>
Line_comment_five_fields == <<"#", "c", TAB, "1", TAB, ".", TAB, "A", TAB, "G">>
Line_blank_fields == <<TAB, "#", TAB, TAB, TAB>>

DecodeLines ==
  {Line_comment, Line_rs1, Line_four_fields, Line_six_fields,
   Line_seven_fields, Line_eight_fields, Line_nine_fields, Line_empty,
   Line_comment_five_fields, Line_blank_fields}

DecodeFiles ==
  {[opens |-> FALSE, lines |-> <<>>, failAt |-> 0]}
    \cup UNION {{[opens |-> TRUE, lines |-> ls, failAt |-> k] :
                   ls \in [1..n -> DecodeLines], k \in 0..(n + 1)} :
                n \in 0..MaxLines}

InitDecode ==
  /\ \E file \in DecodeFiles : disk = [path \in {PathQ} |-> file]
  /\ files_items = <<PathQ>>
  /\ files_selected = Some(0)
  /\ files_filter = <<>>
  /\ vcf_records = unwrap_or_default(parse_vcf(files_items[1]))
  /\ vcf_selected = None
  /\ chrom_filter = <<>>
  /\ ref_filter = <<>>
  /\ alt_filter = <<>>
  /\ pos_filter = <<>>
  /\ tabs_index = 0
  /\ modal = None
  /\ exited = FALSE

NextDecode ==
  \/ handle_files_tab_Enter
  \/ handle_vcf_tab_Back
  \/ handle_vcf_tab_Down
  \/ handle_vcf_tab_Up

SpecDecode == InitDecode /\ [][NextDecode]_vars

\* ---- the decoder as the specification words it
tabs_of(line) == {i \in 1..Len(line) : line[i] = TAB}

\* The field number k (from 0) of a line: the text between the k-th tab and
\* the next one.
field_of(line, k) ==
  LET tabs == tabs_of(line)
      first == IF k = 0 THEN 1 ELSE kth_of(tabs, k) + 1
      last == IF k = Cardinality(tabs) THEN Len(line) ELSE kth_of(tabs, k + 1) - 1
  IN [i \in 1..(last - first + 1) |-> line[first + i - 1]]

field_or_dot(line, k) ==
  IF k <= Cardinality(tabs_of(line)) THEN field_of(line, k) ELSE <<".">>

\* The file of this path is opened and read to its end without an error.
reads_well(path) ==
  /\ disk[path].opens
  /\ disk[path].failAt \notin 1..(Len(disk[path].lines) + 1)

\* C15: decoding yields one record per line that does not begin with '#'
\* and has at least 5 tab-separated fields, in line order; fields 0 to 4
\* are chromosome, position, identifier, reference and alternate, and
\* quality, filter status and info are the 6th, 7th and 8th field or "."
\* when absent.
C15_DecodedRecords ==
  reads_well(PathQ) =>
    LET lines == disk[PathQ].lines
        kept == {i \in 1..Len(lines) :
                   /\ ~(Len(lines[i]) > 0 /\ lines[i][1] = "#")
                   /\ Cardinality(tabs_of(lines[i])) + 1 >= 5}
    IN /\ Len(vcf_records) = Cardinality(kept)
       /\ \A k \in 1..Len(vcf_records) :
            LET line == lines[kth_of(kept, k)]
                r == vcf_records[k]
            IN /\ r.chrom = field_of(line, 0)
               /\ r.pos = field_of(line, 1)
               /\ r.id = field_of(line, 2)
               /\ r.ref_ = field_of(line, 3)
               /\ r.alt = field_of(line, 4)
               /\ r.qual = field_or_dot(line, 5)
               /\ r.filter = field_or_dot(line, 6)
               /\ r.info = field_or_dot(line, 7)

\* Witness of C15: of a four-field line and the line "chr1 100 rs1 A G" the
\* decoder kept the second, with "." for the three absent fields, and the
\* operator loaded it from the Files tab.
C15_Witness ==
  /\ reads_well(PathQ)
  /\ disk[PathQ].lines = <<Line_four_fields, Line_rs1>>
  /\ tabs_index = 1
  /\ vcf_records =
       <<[chrom |-> <<"c", "h", "r", "1">>, pos |-> <<"1", "0", "0">>,
          id |-> <<"r", "s", "1">>, ref_ |-> <<"A">>, alt |-> <<"G">>,
          qual |-> <<".">>, filter |-> <<".">>, info |-> <<".">>]>>

\* C16: loading a file that cannot be opened, or one of whose reads fails,
\* leaves the record set empty (neither the records held before nor the
\* records decoded before the failure), resets the record cursor to none,
\* switches to the Records tab and does not terminate the process.
C16_FailedLoadGivesNoRecords ==
  [][(/\ handle_files_tab_Enter
      /\ files_selected # None
      /\ ~reads_well(files_items[files_selected[1] + 1]))
       => /\ vcf_records' = <<>>
          /\ vcf_selected' = None
          /\ tabs_index' = 1
          /\ modal' = None
          /\ ~exited']_vars

\* Witness of C16: the unopenable second entry was loaded over the two
\* records of the first, and the next key opened the Menu.
C16_Witness ==
  /\ Len(files_items) = 3
  /\ files_selected = Sel(1)
  /\ ~reads_well(files_items[2])
  /\ vcf_records = <<>>
  /\ tabs_index = 1
  /\ menu_open
  /\ ~exited

\* C17: in every reachable state the record cursor is none or an index into
\* the filtered view, also right after a criterion is committed or the
\* criteria are cleared while a record is selected.
C17_RecordCursorInFilteredView ==
  vcf_selected = None \/ vcf_selected[1] < Len(filtered_records)

\* C18: on the Files tab, whatever the file-name filter holds, the entry the
\* file list shows highlighted is the catalog entry under the cursor, the
\* one Enter loads.
C18_HighlightedIsLoaded ==
  (tabs_index = 0 /\ files_selected # None /\ render_file_tab_highlighted # None) =>
    render_file_tab_highlighted = Some(files_items[files_selected[1] + 1])

\* C19: a modal is open only while the Records tab is active: it is opened
\* only by the filter key of the Records tab, and the tab does not change
\* while it is open.
C19_ModalOnlyOnRecordsTab ==
  [][/\ (modal = None /\ modal' # None) => (handle_vcf_tab_Filter /\ tabs_index = 1)
     /\ modal # None => tabs_index' = tabs_index
     /\ modal' # None => tabs_index' = 1]_vars

\* Witness of C19: 'f' was typed into a TextInput modal on the Records tab.
C19_Witness ==
  /\ input_open
  /\ unwrap(modal).input = <<"f">>
  /\ tabs_index = 1

\* C20: from every state of the running process Esc, Esc, q terminates it:
\* with a modal open Esc can only close it, on the Records tab; on the
\* Records tab Esc can only return to the Files tab; on the Files tab Esc
\* changes nothing and q can only terminate.
C20_EscEscQuitTerminates ==
  ~exited =>
    /\ modal # None =>
         /\ tabs_index = 1
         /\ ENABLED ((handle_modal_key_MenuEsc \/ handle_modal_key_InputEsc)
                       /\ modal' = None /\ tabs_index' = 1 /\ ~exited')
         /\ ~ENABLED ((handle_modal_key_MenuEsc \/ handle_modal_key_InputEsc)
                        /\ ~(modal' = None /\ tabs_index' = 1 /\ ~exited'))
    /\ (modal = None /\ tabs_index = 1) =>
         /\ ENABLED (handle_vcf_tab_Back
                       /\ modal' = None /\ tabs_index' = 0 /\ ~exited')
         /\ ~ENABLED (handle_vcf_tab_Back
                        /\ ~(modal' = None /\ tabs_index' = 0 /\ ~exited'))
    /\ (modal = None /\ tabs_index = 0) =>
         /\ ENABLED (handle_files_tab_Other /\ vars' = vars)
         /\ ~ENABLED (handle_files_tab_Other /\ vars' # vars)
         /\ ENABLED (handle_files_tab_Quit /\ exited')
         /\ ~ENABLED (handle_files_tab_Quit /\ ~exited')

\* Witness of C20: the process has exited after a criterion had been
\* committed from a modal on the Records tab.
C20_Witness ==
  /\ exited
  /\ alt_filter = <<"f">>
  /\ files_filter = <<>>
  /\ tabs_index = 0
  /\ modal = None

====
